---- MODULE Spec2Model ----
(***************************************************************************)
(* Model of the goclj lexer (package parse, lexer.run and its state        *)
(* functions) and of the tree transforms of package format.                *)
(*                                                                         *)
(* Runes are Unicode code points (integers), a token text is a sequence of *)
(* runes, the input stream is a sequence of runes read through a reader    *)
(* with one rune of pushback.  The lexer goroutine and its consumer meet   *)
(* on the unbuffered channel l.tokens.                                     *)
(***************************************************************************)
EXTENDS Integers, Sequences, FiniteSets, TLC

\* ------------------------------------------------------------------ bounds
\* longest input drawn from the whole alphabet
MaxLen == 3
\* longest input drawn from the string-literal alphabet
MaxStrLen == 6
\* most children of an :import/:require list after the keyword
MaxEntries == 3
\* most children of a defn or defmethod form after its name
MaxBody == 4
\* most children of a form of newlines, comments and symbols
MaxKids == 4
\* most top-level nodes
MaxRoots == 4
\* most calls of applyTransforms on one tree
MaxRuns == 2

\* ------------------------------------------------------------------- runes
\* Code points of the runes the lexer switches on, and of the sample runes
\* used as inputs (a letter, a two-byte letter, a digit, a rune no rule takes).
Rune ==
  [ semi |-> 59, quote |-> 34, bslash |-> 92, colon |-> 58, percent |-> 37,
    hash |-> 35, plus |-> 43, minus |-> 45, apos |-> 39, at |-> 64,
    btick |-> 96, circ |-> 94, lbrace |-> 123, lbrack |-> 91, lparen |-> 40,
    rbrace |-> 125, rbrack |-> 93, rparen |-> 41, tilde |-> 126,
    nl |-> 10, space |-> 32, comma |-> 44, under |-> 95,
    a |-> 97, eacute |-> 233, five |-> 53, bar |-> 124 ]

Alphabet ==
  { Rune.hash, Rune.under, Rune.lparen, Rune.quote, Rune.bslash, Rune.minus,
    Rune.plus, Rune.five, Rune.a, Rune.space, Rune.nl, Rune.semi,
    Rune.eacute, Rune.bar, Rune.colon, Rune.percent }

StringAlphabet == { Rune.quote, Rune.bslash, Rune.a }

Strs(A, n) == UNION { [1..k -> A] : k \in 0..n }

Inputs == Strs(Alphabet, MaxLen) \cup Strs(StringAlphabet, MaxStrLen)

\* width in bytes of the UTF-8 encoding of r, the w of bufio.Reader.ReadRune
RuneLen(r) == IF r < 128 THEN 1 ELSE IF r < 2048 THEN 2 ELSE IF r < 65536 THEN 3 ELSE 4

\* unicode.IsSpace, unicode.IsLetter, unicode.IsDigit on the Latin-1 range
IsSpace(r) == r \in {9, 10, 11, 12, 13, 32, 133, 160}
IsLetter(r) ==
  \/ r \in 65..90 \/ r \in 97..122 \/ r \in {170, 181, 186}
  \/ r \in 192..214 \/ r \in 216..246 \/ r \in 248..255
IsDigit(r) == r \in 48..57

isWhitespace(r) == IsSpace(r) \/ r = Rune.comma

isSymbolChar(r) ==
  \/ IsLetter(r) \/ IsDigit(r)
  \/ r \in {42, Rune.plus, 33, Rune.minus, Rune.under, 63, 47, 46, Rune.colon,
            36, 61, 62, 60, 38}

WhitespaceRunes == { r \in 0..255 : isWhitespace(r) }
SymbolRunes == { r \in 0..255 : isSymbolChar(r) }

\* ------------------------------------------------------------------- state
VARIABLES
  input,    \* the runes of the source behind l.input
  l,        \* the lexer struct: reader cursor, pos, start, lastPos, val
  state,    \* the stateFn lexer.run calls next
  pc,       \* where the lexer goroutine is: "run", "send", "done", "crashed"
  cont,     \* what the lexer does once its pending send has completed
  tokens,   \* channel l.tokens: the token in flight, and whether it is closed
  out,      \* the tokens the consumer has received through nextToken
  sent,     \* number of tokens the lexer has offered on the channel
  covered,  \* emitted token texts and discarded whitespace, in order
  roots,      \* t.Roots of the tree handed to applyTransforms
  transforms, \* the configuration map handed to applyTransforms
  runs,       \* number of calls of applyTransforms so far
  prev        \* t.Roots before the latest call

lvars == <<input, l, state, pc, cont, tokens, out, sent, covered>>
tvars == <<roots, transforms, runs, prev>>
vars == <<lvars, tvars>>

\* Pos without the constant Name
Pos(o, ln, c) == [Offset |-> o, Line |-> ln, Col |-> c]

\* token{typ, pos, val}.  msg holds the text of an error token (val then
\* holds the format argument); at is the index in the input of the first
\* rune of val, recorded for the position properties.
token(typ, pos, val, msg, at) ==
  [typ |-> typ, pos |-> pos, val |-> val, msg |-> msg, at |-> at]

\* ------------------------------------------------------ reading and backup
\* lexer.next; fa is the index of the read at which the reader fails with an
\* error other than io.EOF (0: no failure).  A rune pushed back by
\* UnreadRune is buffered and is read again without touching the source.
next(lx, fa) ==
  IF lx.rd + 1 = fa /\ ~lx.unread
  THEN [l |-> lx, r |-> 0, eof |-> FALSE, err |-> TRUE]
  ELSE IF lx.rd >= Len(input)
  THEN [l |-> lx, r |-> 0, eof |-> TRUE, err |-> FALSE]
  ELSE LET r == input[lx.rd + 1]
           w == RuneLen(r)
       IN [l |-> [lx EXCEPT
                    !.rd = @ + 1,
                    !.unread = FALSE,
                    !.lastPos = <<lx.pos>>,
                    !.pos = Pos(lx.pos.Offset + w,
                                IF r = Rune.nl THEN lx.pos.Line + 1 ELSE lx.pos.Line,
                                IF r = Rune.nl THEN 1 ELSE lx.pos.Col + w),
                    !.valAt = IF lx.val = <<>> THEN lx.rd ELSE @,
                    !.val = Append(@, r)],
           r |-> r, eof |-> FALSE, err |-> FALSE]

\* lexer.back; panics when lastPos is nil
backPanics(lx) == lx.lastPos = <<>>
back(lx) ==
  [lx EXCEPT !.rd = @ - 1,
             !.unread = TRUE,
             !.pos = lx.lastPos[1],
             !.val = SubSeq(@, 1, Len(@) - 1),
             !.lastPos = <<>>]

\* lexer.skip
skip(lx) == [lx EXCEPT !.start = lx.pos, !.val = <<>>]

\* lexer.scanWhile with the predicate given as the set of runes it accepts
RECURSIVE scanWhile(_, _, _)
scanWhile(lx, accept, fa) ==
  LET n == next(lx, fa) IN
  IF n.err THEN [l |-> n.l, err |-> TRUE, panic |-> FALSE]
  ELSE IF n.eof THEN [l |-> n.l, err |-> FALSE, panic |-> FALSE]
  ELSE IF n.r \notin accept
       THEN IF backPanics(n.l)
            THEN [l |-> n.l, err |-> FALSE, panic |-> TRUE]
            ELSE [l |-> back(n.l), err |-> FALSE, panic |-> FALSE]
  ELSE scanWhile(n.l, accept, fa)

\* lexer.scanUntil
RECURSIVE scanUntil(_, _, _)
scanUntil(lx, set, fa) ==
  LET n == next(lx, fa) IN
  IF n.err THEN [l |-> n.l, err |-> TRUE, panic |-> FALSE]
  ELSE IF n.eof THEN [l |-> n.l, err |-> FALSE, panic |-> FALSE]
  ELSE IF n.r \in set THEN [l |-> n.l, err |-> FALSE, panic |-> FALSE]
  ELSE scanUntil(n.l, set, fa)

\* ------------------------------------------- outcomes of one state function
\* A state function runs until it returns the next state, blocks on a send,
\* or panics.  then is the state returned after the send ("nil" ends run,
\* "eof" stands for the call of l.eof() that follows, "abort" for the return
\* of the deferred recover, which skips close).  ws holds the runes the step
\* discarded as whitespace.
Goto(lx, s, ws) ==
  [l |-> lx, op |-> "goto", tok |-> <<>>, skip |-> FALSE, then |-> s, ws |-> ws]

\* lexer.emit: send token{typ, l.start, string(l.val)}, then skip
emit(lx, typ, s) ==
  [l |-> lx, op |-> "send",
   tok |-> <<token(typ, lx.start, lx.val, "", IF lx.val = <<>> THEN lx.rd ELSE lx.valAt)>>,
   skip |-> TRUE, then |-> s, ws |-> <<>>]

\* lexer.synth: send token{typ, l.start, val}, no skip
synth(lx, typ, val, at, s) ==
  [l |-> lx, op |-> "send", tok |-> <<token(typ, lx.start, val, "", at)>>,
   skip |-> FALSE, then |-> s, ws |-> <<>>]

\* errorf returning lexOuter instead of nil: the lexer goes on after an error
errorfResuming(lx, msg, args) ==
  [l |-> lx, op |-> "send", tok |-> <<token("tokError", lx.start, args, msg, lx.rd)>>,
   skip |-> FALSE, then |-> "lexOuter", ws |-> <<>>]

\* lexer.errorf: send the error token and return nil
errorf(lx, msg, args) ==
  [l |-> lx, op |-> "send", tok |-> <<token("tokError", lx.start, args, msg, lx.rd)>>,
   skip |-> FALSE, then |-> "nil", ws |-> <<>>]

\* lexer.scanError, called by the deferred recover of lexer.run
scanError(lx) ==
  [l |-> lx, op |-> "send",
   tok |-> <<token("tokError", lx.start, <<>>, "error while scanning: %s", lx.rd)>>,
   skip |-> FALSE, then |-> "abort", ws |-> <<>>]

\* a panic that recover re-raises
Panic(lx) ==
  [l |-> lx, op |-> "panic", tok |-> <<>>, skip |-> FALSE, then |-> "nil", ws |-> <<>>]

\* lexer.eof
eof(lx) == emit(lx, "tokEOF", "nil")

\* the result of a scan followed by what the state function does next
AfterScan(sc, res) ==
  IF sc.err THEN scanError(sc.l)
  ELSE IF sc.panic THEN Panic(sc.l)
  ELSE res

\* --------------------------------------------------------- state functions
\* single-character tokens of lexOuter
SingleTok ==
  (Rune.apos :> "tokApostrophe") @@ (Rune.at :> "tokAtSign") @@
  (Rune.btick :> "tokBacktick") @@ (Rune.circ :> "tokCircumflex") @@
  (Rune.lbrace :> "tokLeftBrace") @@ (Rune.lbrack :> "tokLeftBracket") @@
  (Rune.lparen :> "tokLeftParen") @@ (Rune.rbrace :> "tokRightBrace") @@
  (Rune.rbrack :> "tokRightBracket") @@ (Rune.rparen :> "tokRightParen") @@
  (Rune.tilde :> "tokTilde")

\* the sign case without the digit test: a sign always starts a symbol
lexOuterSignAsSymbol(lx, fa) ==
  LET n2 == next(lx, fa) IN
  IF n2.err THEN scanError(n2.l)
  ELSE IF n2.eof THEN emit(n2.l, "tokSymbol", "eof")
  ELSE IF backPanics(n2.l) THEN Panic(n2.l)
  ELSE Goto(back(n2.l), "lexSymbol", <<>>)

\* lexOuter, case '+', '-': lx has consumed the sign
lexOuterSign(lx, fa) ==
  LET n2 == next(lx, fa) IN
  IF n2.err THEN scanError(n2.l)
  ELSE IF n2.eof THEN emit(n2.l, "tokSymbol", "eof")
  ELSE IF backPanics(n2.l) THEN Panic(n2.l)
  ELSE IF n2.r \in 48..57
       THEN Goto(back(n2.l), "lexNumber", <<>>)
       ELSE Goto(back(n2.l), "lexSymbol", <<>>)

lexOuter(lx, fa) ==
  LET n == next(lx, fa) IN
  IF n.err THEN scanError(n.l)
  ELSE IF n.eof THEN eof(n.l)
  ELSE IF n.r = Rune.semi THEN Goto(n.l, "lexComment", <<>>)
  ELSE IF n.r = Rune.quote THEN Goto(n.l, "lexString", <<>>)
  ELSE IF n.r = Rune.bslash THEN Goto(n.l, "lexCharLiteral", <<>>)
  ELSE IF n.r = Rune.colon THEN Goto(n.l, "lexKeyword", <<>>)
  ELSE IF n.r = Rune.percent THEN Goto(n.l, "lexLambdaArg", <<>>)
  ELSE IF n.r = Rune.hash THEN Goto(n.l, "lexDispatch", <<>>)
  ELSE IF n.r \in {Rune.plus, Rune.minus} THEN lexOuterSign(n.l, fa)
  ELSE IF n.r \in DOMAIN SingleTok THEN emit(n.l, SingleTok[n.r], "lexOuter")
  ELSE IF isWhitespace(n.r) THEN Goto(n.l, "lexWhitespace", <<>>)
  ELSE IF n.r \in 48..57 THEN Goto(n.l, "lexNumber", <<>>)
  ELSE IF isSymbolChar(n.r) THEN Goto(n.l, "lexSymbol", <<>>)
  ELSE errorf(n.l, "unrecognized token starting with %c", <<n.r>>)

lexWhitespace(lx, fa) ==
  LET sc == scanWhile(lx, WhitespaceRunes, fa) IN
  AfterScan(sc, Goto(skip(sc.l), "lexOuter", sc.l.val))

lexComment(lx, fa) ==
  LET sc == scanUntil(lx, {Rune.nl}, fa) IN
  AfterScan(sc, emit(sc.l, "tokComment", "lexOuter"))

\* the loop of lexString with a backslash setting escaped instead of
\* toggling it
RECURSIVE lexStringLoopSticky(_, _, _)
lexStringLoopSticky(lx, escaped, fa) ==
  LET n == next(lx, fa) IN
  IF n.err THEN scanError(n.l)
  ELSE IF n.eof THEN errorf(n.l, "reached EOF before string closing quote", <<>>)
  ELSE IF n.r = Rune.quote
       THEN IF ~escaped THEN emit(n.l, "tokString", "lexOuter")
                        ELSE lexStringLoopSticky(n.l, FALSE, fa)
  ELSE IF n.r = Rune.bslash THEN lexStringLoopSticky(n.l, TRUE, fa)
  ELSE lexStringLoopSticky(n.l, FALSE, fa)

\* lexString; escaped is the local flag of the loop
RECURSIVE lexStringLoop(_, _, _)
lexStringLoop(lx, escaped, fa) ==
  LET n == next(lx, fa) IN
  IF n.err THEN scanError(n.l)
  ELSE IF n.eof THEN errorf(n.l, "reached EOF before string closing quote", <<>>)
  ELSE IF n.r = Rune.quote
       THEN IF ~escaped THEN emit(n.l, "tokString", "lexOuter")
                        ELSE lexStringLoop(n.l, FALSE, fa)
  ELSE IF n.r = Rune.bslash THEN lexStringLoop(n.l, ~escaped, fa)
  ELSE lexStringLoop(n.l, FALSE, fa)

lexString(lx, fa) == lexStringLoop(lx, FALSE, fa)

lexCharLiteral(lx, fa) ==
  LET n == next(lx, fa) IN
  IF n.err THEN scanError(n.l)
  ELSE IF n.eof THEN errorf(n.l, "invalid character literal", <<>>)
  ELSE LET sc == scanWhile(n.l, SymbolRunes, fa) IN
       AfterScan(sc, emit(sc.l, "tokCharLiteral", "lexOuter"))

lexKeyword(lx, fa) ==
  LET sc == scanWhile(lx, SymbolRunes, fa) IN
  AfterScan(sc, emit(sc.l, "tokKeyword", "lexOuter"))

lexLambdaArg(lx, fa) ==
  LET sc == scanWhile(lx, SymbolRunes, fa) IN
  AfterScan(sc, emit(sc.l, "tokLambdaArg", "lexOuter"))

\* the runes after '#' that make a dispatch token
DispatchRunes == {Rune.lbrace, Rune.lparen, Rune.apos, Rune.quote, Rune.under}

\* lexDispatch keeping the peeked rune of a dispatch token consumed
lexDispatchConsuming(lx, fa) ==
  LET n == next(lx, fa) IN
  IF n.err THEN scanError(n.l)
  ELSE IF n.eof THEN emit(n.l, "tokOctothorpe", "nil")
  ELSE IF backPanics(n.l) THEN Panic(n.l)
  ELSE LET val == n.l.val
           at == n.l.valAt
       IN IF n.r \in DispatchRunes
          THEN synth(skip(n.l), "tokDispatch", val, at, "lexOuter")
          ELSE Goto(skip(back(n.l)), "lexOuter", <<>>)

lexDispatch(lx, fa) ==
  LET n == next(lx, fa) IN
  IF n.err THEN scanError(n.l)
  ELSE IF n.eof THEN emit(n.l, "tokOctothorpe", "nil")
  ELSE IF backPanics(n.l) THEN Panic(n.l)
  ELSE LET val == n.l.val
           at == n.l.valAt
           l2 == skip(back(n.l))
       IN IF n.r \in DispatchRunes
          THEN synth(l2, "tokDispatch", val, at, "lexOuter")
          ELSE Goto(l2, "lexOuter", <<>>)

lexNumber(lx, fa) ==
  LET sc == scanWhile(lx, SymbolRunes, fa) IN
  AfterScan(sc, emit(sc.l, "tokNumber", "lexOuter"))

lexSymbol(lx, fa) ==
  LET sc == scanWhile(lx, SymbolRunes, fa) IN
  AfterScan(sc, emit(sc.l, "tokSymbol", "lexOuter"))

\* ------------------------------------------------------------ the goroutines
\* lex: the lexer as constructed, before the goroutine has run
NewLexer ==
  [rd |-> 0, unread |-> FALSE, pos |-> Pos(0, 1, 1), start |-> Pos(0, 1, 1),
   lastPos |-> <<>>, val |-> <<>>, valAt |-> 0]

Init ==
  /\ input \in Inputs
  /\ l = NewLexer
  /\ state = "lexOuter"
  /\ pc = "run"
  /\ cont = [skip |-> FALSE, then |-> "nil"]
  /\ tokens = [offer |-> <<>>, closed |-> FALSE]
  /\ out = <<>>
  /\ sent = 0
  /\ covered = <<>>
  /\ roots = <<>> /\ transforms = <<>> /\ runs = 0 /\ prev = <<>>

\* the indices at which the next reads of the source may fail
FailPoints == {0} \cup ((l.rd + 1)..(Len(input) + 1))

\* a send that never blocks, as on a channel with a buffer
BlockedNever == FALSE

\* the send l.tokens <- tok keeps the lexer blocked while the token has not
\* been received: the channel has no buffer
Blocked == tokens.offer # <<>>

\* the effect of one state function, or of a resumed emit, on the state
Do(res) ==
  /\ l' = res.l
  /\ covered' = covered \o res.ws \o
                  (IF res.op = "send" /\ res.tok[1].typ # "tokError"
                   THEN res.tok[1].val ELSE <<>>)
  /\ CASE res.op = "goto" ->
            /\ state' = res.then
            /\ UNCHANGED <<pc, cont, tokens, sent>>
       [] res.op = "send" ->
            /\ pc' = "send"
            /\ tokens' = [tokens EXCEPT !.offer = res.tok]
            /\ cont' = [skip |-> res.skip, then |-> res.then]
            /\ sent' = sent + 1
            /\ UNCHANGED state
       [] res.op = "panic" ->
            /\ pc' = "crashed"
            /\ UNCHANGED <<state, cont, tokens, sent>>
  /\ UNCHANGED <<input, out>>
  /\ UNCHANGED tvars

Run(s) == pc = "run" /\ state = s

LexOuter == Run("lexOuter") /\ \E fa \in FailPoints : Do(lexOuter(l, fa))
LexWhitespace == Run("lexWhitespace") /\ \E fa \in FailPoints : Do(lexWhitespace(l, fa))
LexComment == Run("lexComment") /\ \E fa \in FailPoints : Do(lexComment(l, fa))
LexString == Run("lexString") /\ \E fa \in FailPoints : Do(lexString(l, fa))
LexCharLiteral == Run("lexCharLiteral") /\ \E fa \in FailPoints : Do(lexCharLiteral(l, fa))
LexKeyword == Run("lexKeyword") /\ \E fa \in FailPoints : Do(lexKeyword(l, fa))
LexLambdaArg == Run("lexLambdaArg") /\ \E fa \in FailPoints : Do(lexLambdaArg(l, fa))
LexDispatch == Run("lexDispatch") /\ \E fa \in FailPoints : Do(lexDispatch(l, fa))
LexNumber == Run("lexNumber") /\ \E fa \in FailPoints : Do(lexNumber(l, fa))
LexSymbol == Run("lexSymbol") /\ \E fa \in FailPoints : Do(lexSymbol(l, fa))

\* The send has completed: the rest of emit (skip), then either the state
\* function's return to the loop of lexer.run, or the call of l.eof(), or the
\* end of the loop and close(l.tokens), or the return of the recover.
Resume ==
  /\ pc = "send"
  /\ ~Blocked
  /\ LET l1 == IF cont.skip THEN skip(l) ELSE l IN
     CASE cont.then = "eof" ->
            /\ Do(eof(l1))
       [] cont.then = "nil" ->
            /\ l' = l1
            /\ state' = "nil"
            /\ pc' = "done"
            /\ tokens' = [tokens EXCEPT !.closed = TRUE]
            /\ UNCHANGED <<input, cont, out, sent, covered>>
       [] cont.then = "abort" ->
            /\ l' = l1
            /\ pc' = "done"
            /\ UNCHANGED <<input, state, cont, tokens, out, sent, covered>>
       [] OTHER ->
            /\ l' = l1
            /\ state' = cont.then
            /\ pc' = "run"
            /\ UNCHANGED <<input, cont, tokens, out, sent, covered>>
  /\ UNCHANGED tvars

\* lexer.nextToken: the consumer receives the token in flight
nextToken ==
  /\ tokens.offer # <<>>
  /\ out' = Append(out, tokens.offer[1])
  /\ tokens' = [tokens EXCEPT !.offer = <<>>]
  /\ UNCHANGED <<input, l, state, pc, cont, sent, covered>>
  /\ UNCHANGED tvars

Next ==
  \/ LexOuter \/ LexWhitespace \/ LexComment \/ LexString \/ LexCharLiteral
  \/ LexKeyword \/ LexLambdaArg \/ LexDispatch \/ LexNumber \/ LexSymbol
  \/ Resume \/ nextToken

Spec == Init /\ [][Next]_vars

\* ============================================================== transforms
\* the literal texts used in trees, as the sequences of their bytes
Txt ==
  [ ns |-> <<110, 115>>, defn |-> <<100, 101, 102, 110>>,
    defmethod |-> <<100, 101, 102, 109, 101, 116, 104, 111, 100>>,
    require |-> <<58, 114, 101, 113, 117, 105, 114, 101>>,
    import |-> <<58, 105, 109, 112, 111, 114, 116>>,
    use |-> <<58, 117, 115, 101>>,
    a |-> <<97>>, b |-> <<98>>, f |-> <<102>>, x |-> <<120>>, y |-> <<121>>,
    k |-> <<58, 107>>, three |-> <<51>>, c |-> <<59, 99>> ]

\* s1 < s2 on Go strings: bytewise lexicographic order
RECURSIVE stringLess(_, _)
stringLess(s1, s2) ==
  IF s2 = <<>> THEN FALSE
  ELSE IF s1 = <<>> THEN TRUE
  ELSE IF Head(s1) = Head(s2) THEN stringLess(Tail(s1), Tail(s2))
  ELSE Head(s1) < Head(s2)

\* parse.Node: typ is the Go type of the node, val its literal text, ch its
\* Children(); id stands for the identity of the node (its source position),
\* which tells apart two nodes of the same shape.
Node(typ, val, ch) == [typ |-> typ, val |-> val, ch |-> ch, id |-> 0]
NewlineNode == Node("newline", <<>>, <<>>)
CommentNode(text) == Node("comment", text, <<>>)
SymbolNode(v) == Node("symbol", v, <<>>)
KeywordNode(v) == Node("keyword", v, <<>>)
NumberNode(v) == Node("number", v, <<>>)
VectorNode(ch) == Node("vector", <<>>, ch)
ListNode(ch) == Node("list", <<>>, ch)
QuoteNode(ch) == Node("quote", <<>>, ch)
MapNode(ch) == Node("map", <<>>, ch)

\* goclj.Newline, goclj.Comment, goclj.Vector, goclj.Keyword
Newline(n) == n.typ = "newline"
Comment(n) == n.typ = "comment"
Vector(n) == n.typ = "vector"
Keyword(n) == n.typ = "keyword"

\* goclj.FnFormSymbol: a list whose first child is one of the symbols syms
FnFormSymbol(n, syms) ==
  /\ n.typ = "list" /\ Len(n.ch) > 0
  /\ n.ch[1].typ = "symbol" /\ n.ch[1].val \in syms

\* goclj.FnFormKeyword: a list whose first child is one of the keywords kws
FnFormKeyword(n, kws) ==
  /\ n.typ = "list" /\ Len(n.ch) > 0
  /\ n.ch[1].typ = "keyword" /\ n.ch[1].val \in kws

\* Node.SetChildren
SetChildren(n, nodes) == [n EXCEPT !.ch = nodes]

Transforms ==
  { "TransformSortImportRequire", "TransformRemoveTrailingNewlines",
    "TransformFixDefnArglistNewline", "TransformFixDefmethodDispatchValNewline",
    "TransformRemoveExtraBlankLines" }

\* a map lookup that yields true for an absent key
EnabledUnlessFalse(m, t) == t \notin DOMAIN m \/ m[t]

\* transforms[t] of a Go map: false for an absent key
Enabled(m, t) == t \in DOMAIN m /\ m[t]

DefaultTransforms == [t \in Transforms |-> TRUE]

listOrVector(n) == n.typ \in {"list", "vector"}

\* importRequireList.Less on the nodes of two entries
Less(n1, n2) ==
  IF n1.typ = "symbol"
  THEN IF n2.typ = "symbol" THEN stringLess(n1.val, n2.val) ELSE TRUE
  ELSE IF listOrVector(n1)
  THEN IF listOrVector(n2)
       THEN IF Len(n1.ch) = 0 THEN TRUE
            ELSE IF Len(n2.ch) = 0 THEN FALSE
            ELSE IF n1.ch[1].typ = "symbol"
                 THEN IF n2.ch[1].typ = "symbol" THEN stringLess(n1.ch[1].val, n2.ch[1].val)
                      ELSE TRUE
                 ELSE FALSE
       ELSE FALSE
  ELSE FALSE

\* sort.Stable on fewer than 20 elements: insertionSort(data, 0, n).
\* sink is the inner loop, moving data[j] down while it is Less than data[j-1]
RECURSIVE sink(_, _)
sink(data, j) ==
  IF j > 1 /\ Less(data[j].Node, data[j - 1].Node)
  THEN sink([data EXCEPT ![j] = data[j - 1], ![j - 1] = data[j]], j - 1)
  ELSE data

RECURSIVE insertionSort(_, _)
insertionSort(data, i) ==
  IF i > Len(data) THEN data ELSE insertionSort(sink(data, i), i + 1)

Stable(data) == insertionSort(data, 2)

\* the first loop of sortImportRequire over nodes[1:], from index i on; acc
\* holds sorted, lineComments and afterSemanticNode
RECURSIVE collect(_, _, _)
collect(nodes, i, acc) ==
  IF i > Len(nodes) THEN acc
  ELSE LET node == nodes[i] IN
    IF Comment(node)
    THEN IF acc.afterSemanticNode
         THEN collect(nodes, i + 1,
                [acc EXCEPT !.sorted[Len(acc.sorted)].CommentBeside = <<node>>])
         ELSE collect(nodes, i + 1,
                [acc EXCEPT !.lineComments = Append(@, node)])
    ELSE IF Newline(node)
    THEN collect(nodes, i + 1, [acc EXCEPT !.afterSemanticNode = FALSE])
    ELSE collect(nodes, i + 1,
           [sorted |-> Append(acc.sorted,
                         [CommentsAbove |-> acc.lineComments,
                          CommentBeside |-> <<>>,
                          Node |-> node]),
            lineComments |-> <<>>,
            afterSemanticNode |-> TRUE])

\* each comment of cs followed by a newline
RECURSIVE commentLines(_)
commentLines(cs) ==
  IF cs = <<>> THEN <<>>
  ELSE <<Head(cs), NewlineNode>> \o commentLines(Tail(cs))

\* the second loop of sortImportRequire: the nodes of the sorted entries
RECURSIVE entryNodes(_)
entryNodes(sorted) ==
  IF sorted = <<>> THEN <<>>
  ELSE LET ir == Head(sorted) IN
    commentLines(ir.CommentsAbove) \o <<ir.Node>> \o ir.CommentBeside
      \o <<NewlineNode>> \o entryNodes(Tail(sorted))

sortImportRequire(n) ==
  LET nodes == n.ch
      acc == collect(nodes, 2,
               [sorted |-> <<>>, lineComments |-> <<>>, afterSemanticNode |-> FALSE])
      sorted == Stable(acc.sorted)
      newNodes == <<nodes[1]>> \o entryNodes(sorted) \o commentLines(acc.lineComments)
  IN IF Len(newNodes) >= 2 /\ ~Comment(newNodes[Len(newNodes) - 1])
     THEN SetChildren(n, SubSeq(newNodes, 1, Len(newNodes) - 1))
     ELSE SetChildren(n, newNodes)

sortNS(ns) ==
  SetChildren(ns,
    [i \in 1..Len(ns.ch) |->
       IF i > 1 /\ FnFormKeyword(ns.ch[i], {Txt.require, Txt.import})
       THEN sortImportRequire(ns.ch[i])
       ELSE ns.ch[i]])

\* the trimming loop without the stop at a comment
RECURSIVE trimNewlinesPastComment(_)
trimNewlinesPastComment(nodes) ==
  IF Len(nodes) = 0 THEN nodes
  ELSE IF ~Newline(nodes[Len(nodes)]) THEN nodes
  ELSE trimNewlinesPastComment(SubSeq(nodes, 1, Len(nodes) - 1))

\* the trimming loop of removeTrailingNewlines
RECURSIVE trimNewlines(_)
trimNewlines(nodes) ==
  IF Len(nodes) = 0 THEN nodes
  ELSE IF Len(nodes) >= 2 /\ Comment(nodes[Len(nodes) - 1]) THEN nodes
  ELSE IF ~Newline(nodes[Len(nodes)]) THEN nodes
  ELSE trimNewlines(SubSeq(nodes, 1, Len(nodes) - 1))

RECURSIVE removeTrailingNewlines(_)
removeTrailingNewlines(n) ==
  IF Len(n.ch) = 0 THEN n
  ELSE LET nodes == IF n.typ \in {"list", "map", "vector", "fn", "set"}
                    THEN trimNewlines(n.ch) ELSE n.ch
       IN SetChildren(n, [i \in 1..Len(nodes) |-> removeTrailingNewlines(nodes[i])])

\* fixDefnArglist without the test of the child after the vector
fixDefnArglistAnyNext(defn) ==
  LET nodes == defn.ch IN
  IF Len(nodes) < 5 THEN defn
  ELSE IF ~Newline(nodes[3]) THEN defn
  ELSE IF ~Vector(nodes[4]) THEN defn
  ELSE SetChildren(defn, [nodes EXCEPT ![3] = nodes[4], ![4] = nodes[3]])

fixDefnArglist(defn) ==
  LET nodes == defn.ch IN
  IF Len(nodes) < 5 THEN defn
  ELSE IF ~Newline(nodes[3]) \/ Newline(nodes[5]) THEN defn
  ELSE IF ~Vector(nodes[4]) THEN defn
  ELSE SetChildren(defn, [nodes EXCEPT ![3] = nodes[4], ![4] = nodes[3]])

\* fixDefmethodDispatchVal swapping in both cases
fixDefmethodDispatchValSwap(defmethod) ==
  LET nodes == defmethod.ch IN
  IF Len(nodes) < 5 THEN defmethod
  ELSE IF ~Newline(nodes[3]) THEN defmethod
  ELSE IF ~Keyword(nodes[4]) THEN defmethod
  ELSE SetChildren(defmethod, [nodes EXCEPT ![3] = nodes[4], ![4] = nodes[3]])

fixDefmethodDispatchVal(defmethod) ==
  LET nodes == defmethod.ch IN
  IF Len(nodes) < 5 THEN defmethod
  ELSE IF ~Newline(nodes[3]) THEN defmethod
  ELSE IF ~Keyword(nodes[4]) THEN defmethod
  ELSE IF Newline(nodes[5])
       THEN SetChildren(defmethod,
              SubSeq(nodes, 1, 2) \o SubSeq(nodes, 4, Len(nodes)))
       ELSE SetChildren(defmethod, [nodes EXCEPT ![3] = nodes[4], ![4] = nodes[3]])

\* the loop of removeExtraBlankLines with a counter that is never reset
RECURSIVE blankLinesNoReset(_, _, _)
blankLinesNoReset(nodes, i, newlines) ==
  IF i > Len(nodes) THEN <<>>
  ELSE LET c == IF Newline(nodes[i]) THEN newlines + 1 ELSE newlines IN
    (IF c <= 2 THEN <<nodes[i]>> ELSE <<>>) \o blankLinesNoReset(nodes, i + 1, c)

\* removeExtraBlankLines from index i on, newlines being the counter
RECURSIVE blankLinesFrom(_, _, _)
blankLinesFrom(nodes, i, newlines) ==
  IF i > Len(nodes) THEN <<>>
  ELSE LET c == IF Newline(nodes[i]) THEN newlines + 1 ELSE 0 IN
    (IF c <= 2 THEN <<nodes[i]>> ELSE <<>>) \o blankLinesFrom(nodes, i + 1, c)

removeExtraBlankLines(nodes) == blankLinesFrom(nodes, 1, 0)

\* removeExtraBlankLinesRecursive without the descent into the children
removeExtraBlankLinesShallow(n) ==
  IF Len(n.ch) = 0 THEN n
  ELSE IF Len(n.ch) > 2 THEN SetChildren(n, removeExtraBlankLines(n.ch)) ELSE n

RECURSIVE removeExtraBlankLinesRecursive(_)
removeExtraBlankLinesRecursive(n) ==
  IF Len(n.ch) = 0 THEN n
  ELSE LET nodes == IF Len(n.ch) > 2 THEN removeExtraBlankLines(n.ch) ELSE n.ch
       IN SetChildren(n,
            [i \in 1..Len(nodes) |-> removeExtraBlankLinesRecursive(nodes[i])])

\* the body of the loop of applyTransforms for one root
applyToRoot(root, m) ==
  LET r1 == IF Enabled(m, "TransformSortImportRequire")
               /\ FnFormSymbol(root, {Txt.ns})
            THEN sortNS(root) ELSE root
      r2 == IF Enabled(m, "TransformRemoveTrailingNewlines")
            THEN removeTrailingNewlines(r1) ELSE r1
      r3 == IF Enabled(m, "TransformFixDefnArglistNewline")
               /\ FnFormSymbol(r2, {Txt.defn})
            THEN fixDefnArglist(r2) ELSE r2
      r4 == IF Enabled(m, "TransformFixDefmethodDispatchValNewline")
               /\ FnFormSymbol(r3, {Txt.defmethod})
            THEN fixDefmethodDispatchVal(r3) ELSE r3
  IN IF Enabled(m, "TransformRemoveExtraBlankLines")
     THEN removeExtraBlankLinesRecursive(r4) ELSE r4

\* applyTransforms on t.Roots
applyTransforms(rs0, m) ==
  LET rs == [i \in 1..Len(rs0) |-> applyToRoot(rs0[i], m)]
  IN IF Enabled(m, "TransformRemoveExtraBlankLines")
     THEN removeExtraBlankLines(rs) ELSE rs

\* ---------------------------------------------------- the trees transformed
\* the children of index i get the identity i; newline nodes have none
WithIds(nodes) ==
  [i \in 1..Len(nodes) |->
     IF Newline(nodes[i]) THEN nodes[i] ELSE [nodes[i] EXCEPT !.id = i]]

\* the children of a :require list after the keyword
RequireShapes ==
  { SymbolNode(Txt.a), SymbolNode(Txt.b), VectorNode(<<>>), ListNode(<<>>),
    VectorNode(<<SymbolNode(Txt.a)>>), VectorNode(<<SymbolNode(Txt.b)>>),
    VectorNode(<<NumberNode(Txt.three)>>), NumberNode(Txt.three),
    CommentNode(Txt.c), NewlineNode }

NsForm(kw, items) ==
  ListNode(<<SymbolNode(Txt.ns), SymbolNode(Txt.x),
             ListNode(<<KeywordNode(kw)>> \o WithIds(items))>>)

NsForms ==
  { NsForm(Txt.require, items) : items \in Strs(RequireShapes, MaxEntries) }
  \cup { NsForm(kw, items) : kw \in {Txt.import, Txt.use},
                             items \in Strs(RequireShapes, MaxEntries - 1) }

\* the children of a defn or defmethod form after its name
DefShapes ==
  { NewlineNode, VectorNode(<<SymbolNode(Txt.x)>>), KeywordNode(Txt.k),
    SymbolNode(Txt.y) }

DefForms ==
  { ListNode(<<SymbolNode(head), SymbolNode(Txt.f)>> \o WithIds(items)) :
      head \in {Txt.defn, Txt.defmethod}, items \in Strs(DefShapes, MaxBody) }

\* forms with newline runs and comments, also one level down
KidShapes == { NewlineNode, CommentNode(Txt.c), SymbolNode(Txt.y) }

NestedForms ==
  UNION { { ListNode(WithIds(kids)),
            ListNode(<<SymbolNode(Txt.f), VectorNode(WithIds(kids))>>),
            QuoteNode(WithIds(kids)), MapNode(WithIds(kids)) } : kids \in Strs(KidShapes, MaxKids) }

\* top-level sequences of forms, newlines and comments
RootShapes == { NewlineNode, CommentNode(Txt.c), ListNode(<<SymbolNode(Txt.f)>>) }

Trees ==
  { <<form>> : form \in NsForms \cup DefForms \cup NestedForms }
  \cup { WithIds(rs) : rs \in Strs(RootShapes, MaxRoots) }

\* the configuration maps: every total map, the empty map, and the maps that
\* hold one transform only
Configs ==
  [Transforms -> BOOLEAN] \cup {<<>>}
  \cup { [t \in {t1} |-> TRUE] : t1 \in Transforms }

InitT ==
  /\ roots \in Trees
  /\ transforms \in Configs
  /\ runs = 0
  /\ prev = roots
  /\ input = <<>> /\ l = NewLexer /\ state = "nil" /\ pc = "idle"
  /\ cont = [skip |-> FALSE, then |-> "nil"]
  /\ tokens = [offer |-> <<>>, closed |-> FALSE]
  /\ out = <<>> /\ sent = 0 /\ covered = <<>>

\* one call of applyTransforms(t, transforms)
ApplyTransforms ==
  /\ runs < MaxRuns
  /\ roots' = applyTransforms(roots, transforms)
  /\ prev' = roots
  /\ runs' = runs + 1
  /\ UNCHANGED <<transforms, lvars>>

NextT == ApplyTransforms

SpecT == InitT /\ [][NextT]_vars

\* =================================================================== claims
\* helpers of the properties
Done == pc = "done"
Last(s) == s[Len(s)]
Kinds == [i \in 1..Len(out) |-> out[i].typ]
\* the run ended with the error token of a failed read
ReadFailed == \E i \in 1..Len(out) : out[i].msg = "error while scanning: %s"
\* the end of the maximal run of runes of accept that starts at index i of s
RunEnd(s, i, accept) ==
  CHOOSE j \in (i - 1)..Len(s) :
    /\ \A k \in i..j : s[k] \in accept
    /\ j = Len(s) \/ s[j + 1] \notin accept

\* C1: when the lexer has stopped, the tokens it sent end with exactly one
\* terminal token (end-of-input or error), and no terminal token comes earlier.
C1_OneTerminalToken ==
  Done =>
    /\ Len(out) >= 1
    /\ Last(out).typ \in {"tokEOF", "tokError"}
    /\ \A i \in 1..(Len(out) - 1) : out[i].typ \notin {"tokEOF", "tokError"}

\* C2: a '#' followed by a rune that is not one of { ( ' " _, or by the end of
\* the input, gives one octothorpe token with text "#", and what follows is
\* tokenized normally: "#a" gives octothorpe, symbol "a", end-of-input.
C2_BareHashIsOctothorpe ==
  ( /\ Done /\ ~ReadFailed
    /\ Len(input) >= 1 /\ input[1] = Rune.hash
    /\ Len(input) = 1 \/ input[2] \notin DispatchRunes )
  => /\ Len(out) >= 1
     /\ out[1].typ = "tokOctothorpe"
     /\ out[1].val = <<Rune.hash>>
     /\ input = <<Rune.hash, Rune.a>> =>
          /\ Kinds = <<"tokOctothorpe", "tokSymbol", "tokEOF">>
          /\ out[2].val = <<Rune.a>>

\* the input is "#_" followed by the run X of symbol runes, and was read to
\* the end without a read failure
DispatchIgnoreInput ==
  /\ Done /\ ~ReadFailed
  /\ Len(input) >= 2 /\ input[1] = Rune.hash /\ input[2] = Rune.under
IgnoredRun == SubSeq(input, 3, RunEnd(input, 3, SymbolRunes))

\* C3 as stated: "#_" followed by a non-empty run X of symbol runes gives the
\* dispatch token "#_" and then a symbol token with text X.
C3_SymbolWithoutUnderscore ==
  (DispatchIgnoreInput /\ IgnoredRun # <<>>) =>
    /\ Len(out) >= 2
    /\ out[1].typ = "tokDispatch" /\ out[1].val = <<Rune.hash, Rune.under>>
    /\ out[2].typ = "tokSymbol" /\ out[2].val = IgnoredRun

\* C3 amended: "#_" followed by the run X of symbol runes gives the dispatch
\* token "#_" and then a symbol token whose text is the underscore followed
\* by X (the '#' gives no octothorpe token).
C3_SymbolRepeatsUnderscore ==
  DispatchIgnoreInput =>
    /\ Len(out) >= 2
    /\ out[1].typ = "tokDispatch" /\ out[1].val = <<Rune.hash, Rune.under>>
    /\ out[2].typ = "tokSymbol" /\ out[2].val = <<Rune.under>> \o IgnoredRun

C3_Witness ==
  /\ Done /\ input = <<Rune.hash, Rune.under, Rune.a>>
  /\ Len(out) = 3 /\ out[2].val = <<Rune.under, Rune.a>>

\* C4: when the lexer has stopped without an error, the texts of the tokens
\* it sent and the whitespace runs it discarded, in order, are exactly the
\* input it consumed: nothing is dropped and nothing appears twice.
C4_TextsPartitionInput ==
  (Done /\ \A i \in 1..Len(out) : out[i].typ # "tokError") =>
    /\ covered = SubSeq(input, 1, l.rd)
    /\ Len(covered) = l.rd

\* line and column of the rune that follows the first k runes of the input,
\* counting runes
LineAt(k) == 1 + Cardinality({j \in 1..k : input[j] = Rune.nl})
ColAt(k) ==
  LET nls == {j \in 1..k : input[j] = Rune.nl}
      lastNl == IF nls = {} THEN 0 ELSE CHOOSE j \in nls : \A j2 \in nls : j2 <= j
  IN 1 + (k - lastNl)

\* C5: the position of every token sent (other than an error token) is the
\* position of the first rune of its text, with columns counted in runes.
C5_PositionOfFirstRune ==
  \A i \in 1..Len(out) :
    out[i].typ # "tokError" =>
      /\ out[i].pos.Line = LineAt(out[i].at)
      /\ out[i].pos.Col = ColAt(out[i].at)

\* the closing quotes of a string literal that starts at index 1 of s: the
\* quotes that do not follow an odd number of consecutive backslashes
BackslashesBefore(s, k) ==
  LET others == {j \in 1..(k - 1) : s[j] # Rune.bslash}
  IN (k - 1) - (CHOOSE j \in others : \A j2 \in others : j2 <= j)
ClosingQuotes(s) ==
  {k \in 2..Len(s) : s[k] = Rune.quote /\ BackslashesBefore(s, k) % 2 = 0}
FirstClosingQuote(s) ==
  CHOOSE k \in ClosingQuotes(s) : \A k2 \in ClosingQuotes(s) : k <= k2

StringInput == Done /\ ~ReadFailed /\ Len(input) >= 1 /\ input[1] = Rune.quote

\* C6 as stated: the string token's text is the content between the quotes.
C6_TextBetweenQuotes ==
  StringInput =>
    IF ClosingQuotes(input) # {}
    THEN /\ out[1].typ = "tokString"
         /\ out[1].val = SubSeq(input, 2, FirstClosingQuote(input) - 1)
    ELSE /\ Kinds = <<"tokError">>
         /\ out[1].msg = "reached EOF before string closing quote"

\* C6 amended: a string literal is closed by the first quote that does not
\* follow an odd number of consecutive backslashes; the string token's text
\* is the whole literal, both quotes included; without a closing quote the
\* only token is the error token.
C6_TextWithQuotes ==
  StringInput =>
    IF ClosingQuotes(input) # {}
    THEN /\ out[1].typ = "tokString"
         /\ out[1].val = SubSeq(input, 1, FirstClosingQuote(input))
    ELSE /\ Kinds = <<"tokError">>
         /\ out[1].msg = "reached EOF before string closing quote"

C6_Witness ==
  /\ Done
  /\ input = <<Rune.quote, Rune.a, Rune.bslash, Rune.quote, Rune.a, Rune.quote>>
  /\ Kinds = <<"tokString", "tokEOF">>
  /\ out[1].val = input

\* C7: an input that starts with a sign gives a number token when a digit
\* follows the sign and a symbol token otherwise, holding the whole run of
\* symbol runes; a sign alone gives the symbol and then end-of-input.
C7_SignNumberOrSymbol ==
  ( /\ Done /\ ~ReadFailed
    /\ Len(input) >= 1 /\ input[1] \in {Rune.plus, Rune.minus} )
  => IF Len(input) = 1
     THEN /\ Kinds = <<"tokSymbol", "tokEOF">>
          /\ out[1].val = input
     ELSE /\ out[1].typ = (IF input[2] \in 48..57 THEN "tokNumber" ELSE "tokSymbol")
          /\ out[1].val = SubSeq(input, 1, RunEnd(input, 2, SymbolRunes))

C7_Witness ==
  /\ Done /\ input = <<Rune.minus, Rune.five>>
  /\ Kinds = <<"tokNumber", "tokEOF">> /\ out[1].val = input

\* C8: while a token is offered and not yet received the lexer does nothing
\* (no read, no change of its state), and at most one token is produced and
\* not yet received.
C8_Rendezvous ==
  /\ [](sent - Len(out) <= 1)
  /\ [][(tokens.offer # <<>> /\ tokens'.offer = tokens.offer)
          => (l' = l /\ state' = state /\ pc' = pc /\ sent' = sent)]_vars

C8_Witness ==
  /\ pc = "send" /\ tokens.offer # <<>> /\ sent = 2 /\ Len(out) = 1

\* an error token has been sent
ErrorSent ==
  \/ \E i \in 1..Len(out) : out[i].typ = "tokError"
  \/ tokens.offer # <<>> /\ tokens.offer[1].typ = "tokError"

\* C9: after an error token no token is sent and no rune is read; the error
\* token is the last token of the stream.
C9_ErrorIsLast ==
  /\ [](\A i \in 1..(Len(out) - 1) : out[i].typ # "tokError")
  /\ [][ErrorSent => (sent' = sent /\ l'.rd = l.rd /\ l'.pos = l.pos)]_vars

C9_Witness ==
  /\ Done /\ Len(out) = 2 /\ out[2].typ = "tokError"
  /\ l.rd = Len(input)

\* the configuration enables exactly the transform t
Only(t) == \A t2 \in Transforms : Enabled(transforms, t2) <=> t2 = t

\* C10: applying one pass twice gives the tree that applying it once gives,
\* for each of the five passes and every tree; in particular a sorted
\* :import/:require list stays as it is when sorted again.
C10_PassIdempotent ==
  (runs = 2 /\ \E t \in Transforms : Only(t)) => roots = prev

\* the semantic children of a node: those that are neither newline nor comment
Semantic(nodes) == SelectSeq(nodes, LAMBDA x : ~Newline(x) /\ ~Comment(x))

\* a and b are the same node with the same semantic nodes below, in order
RECURSIVE SemEq(_, _)
SemEq(a, b) ==
  /\ a.typ = b.typ /\ a.val = b.val /\ a.id = b.id
  /\ LET ka == Semantic(a.ch)
         kb == Semantic(b.ch)
     IN /\ Len(ka) = Len(kb)
        /\ \A i \in 1..Len(ka) : SemEq(ka[i], kb[i])

\* the semantic children of b are those of a, each as often, in any order
PermEq(a, b) ==
  /\ a.typ = b.typ /\ a.val = b.val /\ a.id = b.id
  /\ LET ka == Semantic(a.ch)
         kb == Semantic(b.ch)
     IN /\ Len(ka) = Len(kb)
        /\ \A i \in 1..Len(ka) :
             Cardinality({j \in 1..Len(ka) : SemEq(ka[j], ka[i])})
               = Cardinality({j \in 1..Len(kb) : SemEq(kb[j], ka[i])})

\* a root before and after: the same semantic nodes in the same order, but
\* for the :import/:require lists of an ns form, which may be permuted
RootSemEq(a, b) ==
  IF FnFormSymbol(a, {Txt.ns})
  THEN /\ a.typ = b.typ /\ a.val = b.val /\ a.id = b.id
       /\ LET ka == Semantic(a.ch)
              kb == Semantic(b.ch)
          IN /\ Len(ka) = Len(kb)
             /\ \A i \in 1..Len(ka) :
                  IF FnFormKeyword(ka[i], {Txt.require, Txt.import})
                  THEN PermEq(ka[i], kb[i])
                  ELSE SemEq(ka[i], kb[i])
  ELSE SemEq(a, b)

\* C11: a call of applyTransforms, with any configuration, keeps under every
\* parent and at the top level the sequence of the nodes that are neither
\* newline nor comment, but for the order inside an :import/:require list.
C11_SemanticNodesKept ==
  runs >= 1 =>
    LET ka == Semantic(prev)
        kb == Semantic(roots)
    IN /\ Len(ka) = Len(kb)
       /\ \A i \in 1..Len(ka) : RootSemEq(ka[i], kb[i])

\* a call has reordered the entries of a :require list and changed nothing else
C11_Witness ==
  /\ runs = 1 /\ Len(prev) = 1 /\ FnFormSymbol(prev[1], {Txt.ns})
  /\ ~SemEq(prev[1], roots[1])
  /\ Len(Semantic(prev[1].ch[3].ch)) = 4

\* the order of entries the sort is said to implement: symbols, then
\* vectors and lists, then other nodes; symbols by text; an empty sequence
\* first, then by the text of the leading symbol, then non-symbol heads
EntryClass(n) == IF n.typ = "symbol" THEN 0 ELSE IF listOrVector(n) THEN 1 ELSE 2
HeadClass(n) ==
  IF Len(n.ch) = 0 THEN 0 ELSE IF n.ch[1].typ = "symbol" THEN 1 ELSE 2
Before(n1, n2) ==
  IF EntryClass(n1) # EntryClass(n2) THEN EntryClass(n1) < EntryClass(n2)
  ELSE IF EntryClass(n1) = 0 THEN stringLess(n1.val, n2.val)
  ELSE IF EntryClass(n1) = 1
       THEN IF HeadClass(n1) # HeadClass(n2) THEN HeadClass(n1) < HeadClass(n2)
            ELSE HeadClass(n1) = 1 /\ stringLess(n1.ch[1].val, n2.ch[1].val)
  ELSE FALSE

\* the tree is one ns form with an :import/:require list as third child
\* and the configuration enables the sort only
SortedOnce ==
  /\ runs = 1 /\ Only("TransformSortImportRequire")
  /\ Len(prev) = 1 /\ FnFormSymbol(prev[1], {Txt.ns})
  /\ FnFormKeyword(prev[1].ch[3], {Txt.require, Txt.import})

\* the entries of the list after the call
SortedEntries == Tail(Semantic(roots[1].ch[3].ch))

\* C12: after the sort the entries are in the order Before, and entries that
\* compare equal are in their original order (id is the original index).
C12_SortedAndStable ==
  SortedOnce =>
    \A i, j \in 1..Len(SortedEntries) :
      i < j =>
        /\ ~Before(SortedEntries[j], SortedEntries[i])
        /\ ~Before(SortedEntries[i], SortedEntries[j])
             => SortedEntries[i].id < SortedEntries[j].id

\* no three newline nodes in a row among nodes, nor below them
RECURSIVE NoLongRuns(_)
NoLongRuns(nodes) ==
  /\ \A i \in 1..(Len(nodes) - 2) :
       ~(Newline(nodes[i]) /\ Newline(nodes[i + 1]) /\ Newline(nodes[i + 2]))
  /\ \A i \in 1..Len(nodes) : NoLongRuns(nodes[i].ch)

\* nodes without the newlines that follow two newlines, at every depth
RECURSIVE Capped(_)
Capped(nodes) ==
  LET keep == SelectSeq([i \in 1..Len(nodes) |-> <<i, nodes[i]>>],
                LAMBDA p : ~(/\ p[1] >= 3 /\ Newline(p[2])
                             /\ Newline(nodes[p[1] - 1]) /\ Newline(nodes[p[1] - 2])))
  IN [i \in 1..Len(keep) |-> [keep[i][2] EXCEPT !.ch = Capped(@)]]

\* C13: with the remove-extra-blank-lines pass enabled, after a call no
\* sibling sequence at any depth has more than two newline nodes in a row;
\* the pass alone cuts the runs of three or more to two and changes nothing
\* else.
C13_BlankLinesCollapsed ==
  /\ (runs >= 1 /\ Enabled(transforms, "TransformRemoveExtraBlankLines"))
       => NoLongRuns(roots)
  /\ (runs = 1 /\ Only("TransformRemoveExtraBlankLines")) => roots = Capped(prev)

\* the pass alone has cut a run of newlines one level below the root form
C13_Witness ==
  /\ runs = 1 /\ Only("TransformRemoveExtraBlankLines")
  /\ Len(prev) = 1 /\ Len(prev[1].ch) = 2
  /\ ~NoLongRuns(prev[1].ch[2].ch)
  /\ roots # prev

\* the shape the defn pass acts on: defn f NL [..] x .. with x no newline
DefnShape(n) ==
  /\ FnFormSymbol(n, {Txt.defn})
  /\ Len(n.ch) >= 5
  /\ Newline(n.ch[3]) /\ Vector(n.ch[4]) /\ ~Newline(n.ch[5])

\* C14: the defn pass alone changes a root only if it is a defn form of at
\* least 5 children with a newline after the name, then a vector, then a
\* child that is no newline; it swaps the newline and the vector and leaves
\* the other children in place; every other root is unchanged.
C14_DefnArglistJoined ==
  (runs = 1 /\ Only("TransformFixDefnArglistNewline")) =>
    /\ Len(roots) = Len(prev)
    /\ \A i \in 1..Len(prev) :
         IF DefnShape(prev[i])
         THEN /\ roots[i].typ = prev[i].typ /\ roots[i].id = prev[i].id
              /\ Len(roots[i].ch) = Len(prev[i].ch)
              /\ roots[i].ch[3] = prev[i].ch[4]
              /\ roots[i].ch[4] = prev[i].ch[3]
              /\ \A k \in 1..Len(prev[i].ch) :
                   k \notin {3, 4} => roots[i].ch[k] = prev[i].ch[k]
         ELSE roots[i] = prev[i]

\* a defn form whose argument vector was on the second line has been joined
C14_Witness ==
  /\ runs = 1 /\ Only("TransformFixDefnArglistNewline") /\ Len(prev) = 1
  /\ DefnShape(prev[1]) /\ Len(prev[1].ch) = 6
  /\ Vector(roots[1].ch[3]) /\ Newline(roots[1].ch[4])

\* the transform t is absent from the configuration or mapped to false
Off(t) == t \notin DOMAIN transforms \/ transforms[t] = FALSE

\* the transform t applied on its own to the root sequence rs
Alone(t, rs) ==
  CASE t = "TransformSortImportRequire" ->
         [i \in 1..Len(rs) |->
            IF FnFormSymbol(rs[i], {Txt.ns}) THEN sortNS(rs[i]) ELSE rs[i]]
    [] t = "TransformRemoveTrailingNewlines" ->
         [i \in 1..Len(rs) |-> removeTrailingNewlines(rs[i])]
    [] t = "TransformFixDefnArglistNewline" ->
         [i \in 1..Len(rs) |->
            IF FnFormSymbol(rs[i], {Txt.defn}) THEN fixDefnArglist(rs[i]) ELSE rs[i]]
    [] t = "TransformFixDefmethodDispatchValNewline" ->
         [i \in 1..Len(rs) |->
            IF FnFormSymbol(rs[i], {Txt.defmethod})
            THEN fixDefmethodDispatchVal(rs[i]) ELSE rs[i]]
    [] t = "TransformRemoveExtraBlankLines" ->
         removeExtraBlankLines(
           [i \in 1..Len(rs) |-> removeExtraBlankLinesRecursive(rs[i])])

\* C15: a transform absent from the configuration or mapped to false is not
\* applied: with none enabled a call leaves the tree unchanged, and with one
\* enabled the result is that of this transform alone.
C15_DisabledNotApplied ==
  /\ (runs >= 1 /\ \A t \in Transforms : Off(t)) => roots = prev
  /\ \A t \in Transforms :
       (runs = 1 /\ ~Off(t) /\ \A t2 \in Transforms \ {t} : Off(t2))
         => roots = Alone(t, prev)

\* a call with the empty configuration on a tree that the default
\* configuration changes
C15_Witness ==
  /\ runs = 1 /\ transforms = <<>>
  /\ applyTransforms(prev, DefaultTransforms) # prev
  /\ roots = prev

\* C16: when lexer.run has returned and the consumer has received every
\* token, the token channel is closed, so that one more receive returns at
\* once instead of blocking forever.
C16_ChannelClosedAtEnd == (Done /\ tokens.offer = <<>>) => tokens.closed

\* C17: the text of a comment token starts with ';' and holds no newline:
\* it runs from the ';' up to the rune before the newline that ends the line.
C17_CommentExcludesNewline ==
  \A i \in 1..Len(out) :
    out[i].typ = "tokComment" =>
      /\ out[i].val # <<>> /\ out[i].val[1] = Rune.semi
      /\ \A k \in 1..Len(out[i].val) : out[i].val[k] # Rune.nl

\* the shape the defmethod pass acts on: defmethod f NL :k x ..
DefmethodShape(n) ==
  /\ FnFormSymbol(n, {Txt.defmethod})
  /\ Len(n.ch) >= 5
  /\ Newline(n.ch[3]) /\ Keyword(n.ch[4])

\* the children a and b are equal but for the slots 3 and 4 exchanged
Swapped(a, b) ==
  /\ Len(a) = Len(b)
  /\ b[3] = a[4] /\ b[4] = a[3]
  /\ \A k \in 1..Len(a) : k \notin {3, 4} => b[k] = a[k]

\* C18 as stated: the defmethod pass alone changes a root only if it is a
\* defmethod form of at least 5 children with a newline after the name and
\* then a keyword; it swaps the newline and the keyword, whether a newline
\* follows the keyword or not, so that no child is removed.
C18_DefmethodSwapped ==
  (runs = 1 /\ Only("TransformFixDefmethodDispatchValNewline")) =>
    /\ Len(roots) = Len(prev)
    /\ \A i \in 1..Len(prev) :
         IF DefmethodShape(prev[i])
         THEN /\ roots[i].typ = prev[i].typ /\ roots[i].id = prev[i].id
              /\ Swapped(prev[i].ch, roots[i].ch)
         ELSE roots[i] = prev[i]

\* C18 amended: the defmethod pass alone changes a root only if it is a
\* defmethod form of at least 5 children with a newline after the name and
\* then a keyword; if no newline follows the keyword the newline and the
\* keyword are swapped, otherwise the newline before the keyword is removed
\* and the form has one child less; either way the keyword follows the name
\* and a newline follows the keyword, the other children keeping their order.
C18_DefmethodJoined ==
  (runs = 1 /\ Only("TransformFixDefmethodDispatchValNewline")) =>
    /\ Len(roots) = Len(prev)
    /\ \A i \in 1..Len(prev) :
         IF DefmethodShape(prev[i])
         THEN LET a == prev[i].ch
                  b == roots[i].ch
              IN /\ roots[i].typ = prev[i].typ /\ roots[i].id = prev[i].id
                 /\ IF Newline(a[5])
                    THEN b = SubSeq(a, 1, 2) \o SubSeq(a, 4, Len(a))
                    ELSE Swapped(a, b)
                 /\ b[3] = a[4] /\ Newline(b[4])
         ELSE roots[i] = prev[i]

\* a defmethod form with a newline on both sides of the dispatch value has
\* lost the first of the two
C18_Witness ==
  /\ runs = 1 /\ Only("TransformFixDefmethodDispatchValNewline") /\ Len(prev) = 1
  /\ DefmethodShape(prev[1]) /\ Newline(prev[1].ch[5]) /\ Len(prev[1].ch) = 6
  /\ Len(roots[1].ch) = 5
  /\ Keyword(roots[1].ch[3]) /\ Newline(roots[1].ch[4])

\* the node kinds whose trailing newlines are trimmed
Trimmable(n) == n.typ \in {"list", "map", "vector", "fn", "set"}

\* b is a with trailing newlines trimmed at every depth: a trimmable node
\* loses newlines at the end of its children only, none of them next to a
\* comment, and ends up empty, or ending in a node that is no newline, or
\* with a comment as second-to-last child; other nodes keep their children
RECURSIVE TrimmedFrom(_, _)
TrimmedFrom(a, b) ==
  /\ b.typ = a.typ /\ b.val = a.val /\ b.id = a.id
  /\ Len(b.ch) <= Len(a.ch)
  /\ \A k \in 1..Len(b.ch) : TrimmedFrom(a.ch[k], b.ch[k])
  /\ IF Trimmable(a)
     THEN /\ \A k \in (Len(b.ch) + 1)..Len(a.ch) :
               Newline(a.ch[k]) /\ ~(k >= 2 /\ Comment(a.ch[k - 1]))
          /\ LET m == Len(b.ch) IN
               \/ m = 0
               \/ ~Newline(b.ch[m])
               \/ m >= 2 /\ Comment(b.ch[m - 1])
     ELSE Len(b.ch) = Len(a.ch)

\* C19: the remove-trailing-newlines pass alone removes only newline nodes
\* at the end of the children of list, map, vector, set and function-literal
\* nodes, at every depth, stopping where a comment is second to last; the
\* children of other nodes and the root sequence are not modified.
C19_TrailingNewlinesTrimmed ==
  (runs = 1 /\ Only("TransformRemoveTrailingNewlines")) =>
    /\ Len(roots) = Len(prev)
    /\ \A i \in 1..Len(prev) : TrimmedFrom(prev[i], roots[i])

\* a vector one level down has lost newlines and kept the one after a comment
C19_Witness ==
  /\ runs = 1 /\ Only("TransformRemoveTrailingNewlines") /\ Len(prev) = 1
  /\ prev[1].typ = "list" /\ Len(prev[1].ch) = 2 /\ Vector(prev[1].ch[2])
  /\ Len(prev[1].ch[2].ch) = 4 /\ Len(roots[1].ch[2].ch) = 2
  /\ Comment(roots[1].ch[2].ch[1]) /\ Newline(roots[1].ch[2].ch[2])

\* an entry of an :import/:require list: neither newline nor comment
IsEntry(n) == ~Newline(n) /\ ~Comment(n)

\* the index in a of the entry on whose line the comment a[i] stands, or 0
EntryBeside(a, i) ==
  LET es == { e \in 2..(i - 1) :
                IsEntry(a[e]) /\ \A k \in (e + 1)..(i - 1) : Comment(a[k]) }
  IN IF es = {} THEN 0 ELSE CHOOSE e \in es : TRUE

\* the index in a of the first entry after the comment line a[i], or 0
EntryBelow(a, i) ==
  LET es == { e \in (i + 1)..Len(a) : IsEntry(a[e]) }
  IN IF es = {} THEN 0 ELSE CHOOSE e \in es : \A e2 \in es : e <= e2

\* the index of the node n in b
IndexIn(b, n) == CHOOSE j \in 1..Len(b) : b[j] = n

CommentsOf(a) == { i \in 2..Len(a) : Comment(a[i]) }

\* C20: sorting an :import/:require list keeps every comment exactly once; a
\* comment on the line of an entry directly follows that entry, comment
\* lines above an entry stay above it in their order, and comments with no
\* entry after them come after the last entry, in their order.
C20_CommentsKeptAttached ==
  SortedOnce =>
    LET a == prev[1].ch[3].ch
        b == roots[1].ch[3].ch
    IN /\ \A i \in CommentsOf(a) :
            Cardinality({ j \in 1..Len(b) : b[j] = a[i] }) = 1
       /\ \A i \in CommentsOf(a) :
            LET p == IndexIn(b, a[i])
                e == EntryBeside(a, i)
                f == EntryBelow(a, i)
            IN IF e # 0 THEN p > 1 /\ b[p - 1] = a[e]
               ELSE IF f # 0
               THEN /\ p < IndexIn(b, a[f])
                    /\ \A k \in p..(IndexIn(b, a[f]) - 1) : ~IsEntry(b[k])
               ELSE \A k \in p..Len(b) : ~IsEntry(b[k])
       /\ \A i, j \in CommentsOf(a) :
            (/\ i < j
             /\ EntryBeside(a, i) = 0 /\ EntryBeside(a, j) = 0
             /\ EntryBelow(a, i) = EntryBelow(a, j))
              => IndexIn(b, a[i]) < IndexIn(b, a[j])

====
